---- MODULE Spec2Model ----
(***************************************************************************)
(* A model of the particle filter of src/pf.go: the Particle motion model, *)
(* the weighting pass, the resampling wheel with jitter and refill, and    *)
(* the filter-level motion pass.                                           *)
(*                                                                         *)
(* Numbers.  Positions, distances and noise samples are integers (a        *)
(* lattice of the float64 values the code computes with).  Angles are      *)
(* integers in units of a quarter turn, so that 2*pi is the integer TwoPi  *)
(* and cos / sin are exact on every angle of the lattice.  Weights, beta   *)
(* and the estimates are float64 values modelled as exact fractions        *)
(* [n, d] with the IEEE special values: d = 0 is +Inf (n = 1), -Inf        *)
(* (n = -1) or NaN (n = 0).                                                *)
(***************************************************************************)
EXTENDS Integers, Sequences, FiniteSets, TLC

\* ---------------------------------------------------------------- bounds
MaxSamples    == 2   \* largest numSamps handed to CreatePF
MaxIter       == 2   \* ResampleAndFuzz calls explored (pf.iteration)
MaxExtent     == 2   \* size of a population explored: its particles plus
                     \* the sum of their |X| + |Y|
MaxCoord      == 2   \* |X|, |Y| explored for a caller's particle
MaxLikelihood == 1   \* largest value Reading.CalculateWeight returns
RandDen       == 4   \* rand.Float64() ranges over k / RandDen, k in 0..RandDen-1
MaxHeading    == 9   \* largest |Heading| explored for a caller's particle
MaxWalk       == 15  \* loop passes of ResampleAndFuzz taken in one step

\* 2*math.Pi in quarter turns
TwoPi == 4

\* ------------------------------------------------------- float64 values
Abs(a) == IF a < 0 THEN -a ELSE a

RECURSIVE GCD(_, _)
GCD(a, b) == IF b = 0 THEN a ELSE GCD(b, a % b)

\* the float64 value n/d, in canonical form
Norm(n, d) ==
    IF d = 0
    THEN [n |-> IF n > 0 THEN 1 ELSE IF n < 0 THEN -1 ELSE 0, d |-> 0]
    ELSE LET s == IF d < 0 THEN -1 ELSE 1
             g == GCD(Abs(n), Abs(d))
         IN  [n |-> (s * n) \div g, d |-> (s * d) \div g]

F(k)     == [n |-> k, d |-> 1]
NaN      == [n |-> 0, d |-> 0]
IsNaN(a) == a.n = 0 /\ a.d = 0

FAdd(a, b) ==
    IF IsNaN(a) \/ IsNaN(b) THEN NaN
    ELSE IF a.d = 0 /\ b.d = 0 THEN (IF a.n = b.n THEN a ELSE NaN)
    ELSE IF a.d = 0 THEN a
    ELSE IF b.d = 0 THEN b
    ELSE Norm(a.n * b.d + b.n * a.d, a.d * b.d)

FSub(a, b) ==
    IF IsNaN(a) \/ IsNaN(b) THEN NaN
    ELSE IF a.d = 0 /\ b.d = 0 THEN (IF a.n = b.n THEN NaN ELSE a)
    ELSE IF a.d = 0 THEN a
    ELSE IF b.d = 0 THEN [n |-> -b.n, d |-> 0]
    ELSE Norm(a.n * b.d - b.n * a.d, a.d * b.d)

FMul(a, b) ==
    IF IsNaN(a) \/ IsNaN(b) THEN NaN
    ELSE IF a.d = 0 \/ b.d = 0 THEN Norm(a.n * b.n, 0)
    ELSE Norm(a.n * b.n, a.d * b.d)

\* IEEE division: x/0 is +Inf or -Inf, 0/0 and Inf/Inf are NaN
FDiv(a, b) ==
    IF IsNaN(a) \/ IsNaN(b) THEN NaN
    ELSE IF a.d = 0 /\ b.d = 0 THEN NaN
    ELSE IF b.d = 0 THEN F(0)
    ELSE IF a.d = 0 THEN Norm(a.n * (IF b.n < 0 THEN -1 ELSE 1), 0)
    ELSE Norm(a.n * b.d, a.d * b.n)

\* a > b; false when either side is NaN
FGt(a, b) ==
    IF IsNaN(a) \/ IsNaN(b) THEN FALSE
    ELSE IF a.d = 0 /\ b.d = 0 THEN a.n > b.n
    ELSE IF a.d = 0 THEN a.n > 0
    ELSE IF b.d = 0 THEN b.n < 0
    ELSE a.n * b.d > b.n * a.d

\* Go's int(f) on a finite float64: truncation toward zero
Trunc(a) == IF a.n < 0 THEN -((-a.n) \div a.d) ELSE a.n \div a.d

\* math.Cos and math.Sin on the quarter-turn lattice
Cos(h) == LET q == h % TwoPi IN IF q = 0 THEN 1 ELSE IF q = 2 THEN -1 ELSE 0
Sin(h) == LET q == h % TwoPi IN IF q = 1 THEN 1 ELSE IF q = 3 THEN -1 ELSE 0

\* ------------------------------------------------------------- Particle
\* Particle.UpdateWeight
UpdateWeight(q, weight) == [q EXCEPT !.Weight = weight]

\* a wrap that also takes a heading of exactly 2*pi back to 0
WrapAtTwoPi(h) ==
    IF h < 0 THEN h + TwoPi ELSE IF h >= TwoPi THEN h - TwoPi ELSE h

\* the single wrap of a heading: lines 28-32 (and 182-186)
Wrap(h) == IF h < 0 THEN h + TwoPi ELSE IF h > TwoPi THEN h - TwoPi ELSE h

\* Particle.Move
ParticleMove(q, dist, ang) ==
    LET h == Wrap(q.Heading + ang)
    IN  [q EXCEPT !.Heading = h,
                  !.X = q.X + dist * Cos(h),
                  !.Y = q.Y + dist * Sin(h)]

\* ------------------------------------------------------------ the state
VARIABLES
    pc,               \* "start" before CreatePF, "idle" between calls,
                      \* "wheel" at line 168, "walk" at line 171, "panic"
    raised,           \* what the last call surfaced to its caller
    args,             \* the spatial domain handed to CreatePF
    numSamples, percentResample, listParticles,
    xMin, xMax, yMin, yMax,
    EstimatedX, EstimatedY, EstimatedHeading,
    maxWeight, sumWeight, iteration,
    locDistribution, angDistribution, distDistribution,
    \* the locals of a running ResampleAndFuzz
    i, beta, startIdx, newParticleList, xLoc, yLoc, heading,
    ran,              \* parity of the blocks of MaxWalk loop passes the
                      \* running ResampleAndFuzz has executed
    \* a Particle held by the caller of the package
    p

config  == <<args, numSamples, percentResample, xMin, xMax, yMin, yMax,
             locDistribution, angDistribution, distDistribution>>
est     == <<EstimatedX, EstimatedY, EstimatedHeading>>
locals  == <<i, beta, startIdx, newParticleList, xLoc, yLoc, heading, ran>>
vars    == <<pc, raised, config, listParticles, est, maxWeight, sumWeight,
             iteration, locals, p>>

\* ---------------------------------------------------------------- inputs
NumSampsSet == -1 .. MaxSamples
PercSet     == {F(0), Norm(1, 2), Norm(3, 4), F(1), Norm(5, 4)}
\* <<locError, distError, angError>>
Sigmas      == {<<0, 0, 0>>, <<1, 1, 1>>}
Domains     == {[xMin |-> 1, xMax |-> 2, yMin |-> 1, yMax |-> 2]}
ZSet        == {-1, 0, 1}      \* samples of the standard normal
DistSet     == {0, 1}          \* dist handed to ParticleFilter.Move
AngSet      == {-1, 0, 1}      \* ang handed to ParticleFilter.Move
Likelihoods == 0 .. MaxLikelihood
UnitDraws   == 0 .. RandDen - 1   \* numerators of rand.Float64()
TurnDraws   == 0 .. TwoPi - 1     \* rand.Float64() * 2 * math.Pi

\* distuv.Normal{Mu, Sigma}.Rand() for the standard-normal sample z
NormalRand(dist, z) == z * dist.Sigma + dist.Mu

\* the populations explored: n particles that lie, summed, within
\* MaxExtent - n of the origin
RECURSIVE Spread(_)
Spread(list) ==
    IF list = <<>> THEN 0
    ELSE Abs(Head(list).X) + Abs(Head(list).Y) + Spread(Tail(list))

InBox(list) == Len(list) + Spread(list) <= MaxExtent

\* --------------------------------------------------------- construction
\* createParticle, for the three rand.Float64() draws rx/RandDen,
\* ry/RandDen and rh/TwoPi.  The products are exact on the lattice when
\* the range is a multiple of RandDen (the ranges are 0 in every filter
\* CreatePF builds, since it leaves xMin .. yMax at their zero values).
createParticle(rx, ry, rh) ==
    LET xRange == xMax - xMax
        yRange == yMax - yMin
    IN  [X |-> xMin + (xRange * rx) \div RandDen,
         Y |-> yMin + (yRange * ry) \div RandDen,
         Heading |-> rh,
         Weight |-> F(0)]

Created == {createParticle(rx, ry, rh) : rx \in UnitDraws, ry \in UnitDraws,
                                         rh \in TurnDraws}

\* the lists a loop of n createParticle calls can append
Appended(n) == IF n <= 0 THEN {<<>>} ELSE [1 .. n -> Created]

ZeroParticle == [X |-> 0, Y |-> 0, Heading |-> 0, Weight |-> F(0)]

FilterInit ==
    /\ pc = "start" /\ raised = "none"
    /\ args = [xMin |-> 0, xMax |-> 0, yMin |-> 0, yMax |-> 0]
    /\ numSamples = 0 /\ percentResample = F(0) /\ listParticles = <<>>
    /\ xMin = 0 /\ xMax = 0 /\ yMin = 0 /\ yMax = 0
    /\ EstimatedX = F(0) /\ EstimatedY = F(0) /\ EstimatedHeading = F(0)
    /\ maxWeight = F(0) /\ sumWeight = F(0) /\ iteration = 0
    /\ locDistribution  = [Mu |-> 0, Sigma |-> 0]
    /\ angDistribution  = [Mu |-> 0, Sigma |-> 0]
    /\ distDistribution = [Mu |-> 0, Sigma |-> 0]
    /\ i = 0 /\ beta = F(0) /\ startIdx = 0 /\ newParticleList = <<>>
    /\ xLoc = 0 /\ yLoc = 0 /\ heading = 0 /\ ran = 0

Init == FilterInit /\ p = ZeroParticle

\* CreatePF: the struct literal sets numSamples, percentResample,
\* listParticles, maxWeight, iteration and the three distributions; every
\* other field keeps its zero value.  It returns the filter and no error.
CreatePF ==
    /\ pc = "start"
    /\ \E numSamps \in NumSampsSet, percResamp \in PercSet, dom \in Domains,
          sig \in Sigmas :
          LET locError == sig[1]  distError == sig[2]  angError == sig[3]
          IN  /\ args' = dom
              /\ numSamples' = numSamps
              /\ percentResample' = percResamp
              /\ locDistribution'  = [Mu |-> 0, Sigma |-> locError]
              /\ angDistribution'  = [Mu |-> 0, Sigma |-> angError]
              /\ distDistribution' = [Mu |-> 0, Sigma |-> distError]
    /\ listParticles' \in Appended(numSamples')
    /\ maxWeight' = F(0)
    /\ iteration' = 0
    /\ pc' = "idle" /\ raised' = "none"
    /\ UNCHANGED <<xMin, xMax, yMin, yMax, est, sumWeight, locals, p>>

\* ------------------------------------------------------------ weighting
\* a checkAndSetMaxWeight that never resets: maxWeight only grows
checkAndSetMaxWeightKeep(mw, weight, override) ==
    IF FGt(weight, mw) THEN weight ELSE mw

\* checkAndSetMaxWeight, as a function of the current maxWeight
checkAndSetMaxWeight(mw, weight, override) ==
    LET m1 == IF FGt(weight, mw) THEN weight ELSE mw
    IN  IF override THEN weight ELSE m1

\* the loop of CalculateWeights over the first k particles of list, for the
\* likelihoods r[j] the reading returns: <<list, maxWeight, sumWeight>>
RECURSIVE WeighLoop(_, _, _)
WeighLoop(list, r, k) ==
    IF k = 0
    THEN <<list, checkAndSetMaxWeight(maxWeight, F(0), TRUE), F(0)>>
    ELSE LET prev == WeighLoop(list, r, k - 1)
             newWeight == F(r[k])
         IN  <<[prev[1] EXCEPT ![k] = UpdateWeight(@, newWeight)],
               checkAndSetMaxWeight(prev[2], newWeight, FALSE),
               FAdd(prev[3], newWeight)>>

Readings == [1 .. Len(listParticles) -> Likelihoods]

CalculateWeights ==
    /\ pc = "idle"
    /\ \E r \in Readings :
          LET w == WeighLoop(listParticles, r, Len(listParticles))
          IN  /\ listParticles' = w[1]
              /\ maxWeight' = w[2]
              /\ sumWeight' = w[3]
    /\ raised' = "none"
    /\ UNCHANGED <<pc, config, est, iteration, locals, p>>

\* ----------------------------------------------------------- resampling
numResample    == FMul(F(numSamples), percentResample)
numIntResample == Trunc(numResample)
numSpoof       == numSamples - numIntResample

\* lines 157-160 over the first k particles of list
RECURSIVE NormaliseLoop(_, _, _)
NormaliseLoop(list, sw, k) ==
    IF k = 0 THEN list
    ELSE [NormaliseLoop(list, sw, k - 1) EXCEPT
             ![k] = UpdateWeight(@, FDiv(@.Weight, sw))]

\* The position of a running ResampleAndFuzz: its locals, and where it
\* stands ("wheel": at the head of the outer loop, line 168; "walk": at the
\* head of the inner loop, line 171; "panic": stopped by a runtime error).
Frame == [pc |-> pc, i |-> i, beta |-> beta, startIdx |-> startIdx,
          newParticleList |-> newParticleList,
          xLoc |-> xLoc, yLoc |-> yLoc, heading |-> heading]

\* the frame on entry to the outer loop (lines 155, 163-165)
EntryFrame == [pc |-> "wheel", i |-> 0, beta |-> beta, startIdx |-> startIdx,
               newParticleList |-> <<>>, xLoc |-> 0, yLoc |-> 0, heading |-> 0]

\* the inner loop is left, and the outer loop advanced, unless beta > 0
AfterBeta(m, b) ==
    IF FGt(b, F(0)) THEN [m EXCEPT !.beta = b, !.pc = "walk"]
    ELSE [m EXCEPT !.beta = b, !.pc = "wheel", !.i = m.i + 1]

\* lines 168-171: one pass of the outer loop draws beta and startIdx
WheelDraw(m) ==
    {AfterBeta([m EXCEPT !.startIdx = s],
               FMul(FMul(Norm(k, RandDen), maxWeight), F(2))) :
        k \in UnitDraws, s \in 0 .. numIntResample - 1}

\* lines 178-193: the jittered copies of q the noise can produce
Fuzzed(q) ==
    {[X |-> q.X + NormalRand(locDistribution, zx),
      Y |-> q.Y + NormalRand(locDistribution, zy),
      Heading |-> Wrap(q.Heading + NormalRand(angDistribution, zh)),
      Weight |-> F(0)] : zx \in ZSet, zy \in ZSet, zh \in ZSet}

\* the selection test of line 173
Selected(q, b) == FGt(q.Weight, b)

\* lines 172-202: one pass of the inner loop, at the particle startIdx
WheelStep(m, list) ==
    IF m.startIdx >= Len(list) \/ m.startIdx < 0
    THEN {[m EXCEPT !.pc = "panic"]}
    ELSE LET q == list[m.startIdx + 1]
             next == AfterBeta([m EXCEPT !.startIdx = (m.startIdx + 1) % numSamples],
                               FSub(m.beta, q.Weight))
         IN  IF Selected(q, m.beta)
             THEN {[next EXCEPT !.newParticleList = Append(@, newP),
                                !.xLoc = @ + newP.X,
                                !.yLoc = @ + newP.Y,
                                !.heading = @ + newP.Heading] :
                      newP \in {f \in Fuzzed(q) :
                                  InBox(Append(m.newParticleList, f))}}
             ELSE {next}

\* the call has left its loops (line 206 is next), or has panicked
Returning(m) == m.pc = "panic" \/ (m.pc = "wheel" /\ m.i >= numIntResample)

Pass(m, list) ==
    IF Returning(m) THEN {m}
    ELSE IF m.pc = "wheel" THEN WheelDraw(m)
    ELSE WheelStep(m, list)

\* the frames the call can stand in after at most fuel more loop passes
RECURSIVE Run(_, _, _)
Run(ms, list, fuel) ==
    IF fuel = 0 \/ \A m \in ms : Returning(m) THEN ms
    ELSE Run(UNION {Pass(m, list) : m \in ms}, list, fuel - 1)

\* lines 206-220 when the loops are left: the estimate, the refill and the
\* new population.  Otherwise the call is still in its loops, or panicked.
Land(m, list) ==
    IF m.pc = "wheel" /\ m.i >= numIntResample
    THEN /\ EstimatedX' = FDiv(F(m.xLoc), F(numIntResample))
         /\ EstimatedY' = FDiv(F(m.yLoc), F(numIntResample))
         /\ EstimatedHeading' = FDiv(F(m.heading), F(numIntResample))
         /\ \E refill \in Appended(numSpoof) :
               listParticles' = m.newParticleList \o refill
         /\ pc' = "idle" /\ raised' = "none"
         \* the locals are dead once the call returns; the model keeps the
         \* outer loop's counter, the number of times the wheel was executed
         /\ i' = m.i
         /\ beta' = F(0) /\ startIdx' = 0 /\ newParticleList' = <<>>
         /\ xLoc' = 0 /\ yLoc' = 0 /\ heading' = 0 /\ ran' = 0
    ELSE /\ pc' = m.pc
         /\ raised' = IF m.pc = "panic" THEN "index out of range" ELSE "none"
         /\ i' = m.i /\ beta' = m.beta /\ startIdx' = m.startIdx
         /\ newParticleList' = m.newParticleList
         /\ xLoc' = m.xLoc /\ yLoc' = m.yLoc /\ heading' = m.heading
         /\ ran' = 1 - ran
         /\ listParticles' = list
         /\ UNCHANGED est

\* lines 151-165, entered with the population list and sumWeight sw, and
\* then the loops: the normalising loop indexes listParticles[0 ..
\* numSamples-1] and panics on the first index the population does not have.
ResampleBody(list, sw) ==
    /\ iteration' = iteration + 1
    /\ IF numSamples > Len(list)
       THEN Land([EntryFrame EXCEPT !.pc = "panic"],
                 NormaliseLoop(list, sw, Len(list)))
       ELSE LET normal == NormaliseLoop(list, sw,
                              IF numSamples < 0 THEN 0 ELSE numSamples)
            IN  \E m \in Run({EntryFrame}, normal, MaxWalk) : Land(m, normal)

ResampleAndFuzz ==
    /\ pc = "idle"
    /\ iteration < MaxIter
    /\ ResampleBody(listParticles, sumWeight)
    /\ UNCHANGED <<config, maxWeight, sumWeight, p>>

\* Update: CalculateWeights, then ResampleAndFuzz
Update ==
    /\ pc = "idle"
    /\ iteration < MaxIter
    /\ \E r \in Readings :
          LET w == WeighLoop(listParticles, r, Len(listParticles))
          IN  /\ maxWeight' = w[2]
              /\ sumWeight' = w[3]
              /\ ResampleBody(w[1], w[3])
    /\ UNCHANGED <<config, p>>

\* a ResampleAndFuzz that is still in its loops runs on
Spin ==
    /\ pc \in {"wheel", "walk"}
    /\ \E m \in Run({Frame}, listParticles, MaxWalk) : Land(m, listParticles)
    /\ UNCHANGED <<config, maxWeight, sumWeight, iteration, p>>

\* --------------------------------------------------------------- motion
\* lines 230-239 over the first k particles of list, for the noise samples
\* dz[j], az[j]: <<list, heading, x, y>>
RECURSIVE MoveLoop(_, _, _, _, _, _)
MoveLoop(list, dist, ang, dz, az, k) ==
    IF k = 0 THEN <<list, 0, 0, 0>>
    ELSE LET prev == MoveLoop(list, dist, ang, dz, az, k - 1)
             particle == ParticleMove(prev[1][k],
                             dist + NormalRand(distDistribution, dz[k]),
                             ang + NormalRand(angDistribution, az[k]))
         IN  <<[prev[1] EXCEPT ![k] = particle],
               prev[2] + particle.Heading,
               prev[3] + particle.X,
               prev[4] + particle.Y>>

\* the divisor of lines 241-243
MoveDivisor == FMul(F(numSamples), percentResample)

\* ParticleFilter.Move
Move ==
    /\ pc = "idle"
    /\ \E dist \in DistSet, ang \in AngSet :
       LET n == IF numSamples > Len(listParticles) THEN Len(listParticles)
                ELSE IF numSamples < 0 THEN 0 ELSE numSamples
       IN  \E m \in {MoveLoop(listParticles, dist, ang, dz, az, n) :
                         dz \in [1 .. n -> ZSet], az \in [1 .. n -> ZSet]} :
               /\ InBox(m[1])
               /\ listParticles' = m[1]
               /\ IF numSamples > Len(listParticles)
                  THEN /\ pc' = "panic" /\ raised' = "index out of range"
                       /\ UNCHANGED est
                  ELSE /\ EstimatedX' = FDiv(F(m[3]), MoveDivisor)
                       /\ EstimatedY' = FDiv(F(m[4]), MoveDivisor)
                       /\ EstimatedHeading' = FDiv(F(m[2]), MoveDivisor)
                       /\ pc' = "idle" /\ raised' = "none"
    /\ UNCHANGED <<config, maxWeight, sumWeight, iteration, locals, p>>

Next ==
    \/ CreatePF
    \/ CalculateWeights
    \/ ResampleAndFuzz
    \/ Update
    \/ Spin
    \/ Move

Spec == Init /\ [][Next]_vars

\* ------------------------------------------------ valid configurations
\* numSamples > 0 and resampleFraction in (0,1]
ValidSize ==
    /\ numSamples > 0
    /\ FGt(percentResample, F(0))
    /\ ~FGt(percentResample, F(1))

ValidSigmas ==
    /\ locDistribution.Sigma > 0
    /\ angDistribution.Sigma > 0
    /\ distDistribution.Sigma > 0

ValidConfiguration == ValidSize /\ ValidSigmas

\* CreatePF called with a valid configuration
ValidCreatePF == CreatePF /\ ValidConfiguration'

ValidNext ==
    \/ ValidCreatePF
    \/ CalculateWeights
    \/ ResampleAndFuzz
    \/ Update
    \/ Spin
    \/ Move

\* a validly configured filter, on which a ResampleAndFuzz that has been
\* called runs until it returns
FairSpec == Init /\ [][ValidNext]_vars /\ WF_vars(Spin)

\* Update with a reading whose likelihoods are not all zero
InformativeUpdate == Update /\ FGt(sumWeight', F(0))

\* the cycles of a validly configured filter: Update with such a reading,
\* and Move
CycleNext ==
    \/ ValidCreatePF
    \/ InformativeUpdate
    \/ Move

CycleSpec == Init /\ [][CycleNext]_vars

\* ------------------------------------------- a Particle held by a caller
\* the particles a caller builds (Particle's fields are exported)
CallerParticles ==
    {[X |-> x, Y |-> y, Heading |-> h, Weight |-> F(w)] :
        x \in {0, 1}, y \in {0, 1}, h \in TurnDraws, w \in Likelihoods}
CallerDist == {-1, 0, 1}
CallerAng  == -(2 * TwoPi) .. 2 * TwoPi

Explored(q) ==
    /\ Abs(q.X) <= MaxCoord /\ Abs(q.Y) <= MaxCoord
    /\ Abs(q.Heading) <= MaxHeading

\* p.Move(dist, ang)
CallerMove(dist, ang) ==
    /\ p' = ParticleMove(p, dist, ang)
    /\ Explored(p')
    /\ UNCHANGED <<pc, raised, config, listParticles, est, maxWeight,
                   sumWeight, iteration, locals>>

\* p.UpdateWeight(weight)
CallerUpdateWeight(w) ==
    /\ p' = UpdateWeight(p, F(w))
    /\ UNCHANGED <<pc, raised, config, listParticles, est, maxWeight,
                   sumWeight, iteration, locals>>

ParticleInit == FilterInit /\ p \in CallerParticles

ParticleNext ==
    \/ \E dist \in CallerDist, ang \in CallerAng : CallerMove(dist, ang)
    \/ \E w \in Likelihoods : CallerUpdateWeight(w)

ParticleSpec == ParticleInit /\ [][ParticleNext]_vars

\* ---------------------------------------------------------------- claims
\* C1: after every completed ResampleAndFuzz() on a filter with
\* numSamples > 0 and resampleFraction in (0,1], the population holds
\* exactly numSamples particles (here: when the weighting pass before it
\* assigned weights that are not all zero).
C1_PopulationSize ==
    (pc = "idle" /\ iteration > 0 /\ ValidConfiguration
                 /\ FGt(sumWeight, F(0)))
        => Len(listParticles) = numSamples

\* C2: every ResampleAndFuzz() call on a validly configured filter
\* terminates: a call that is in its loops leaves them.
C2_ResampleTerminates ==
    (ValidConfiguration /\ pc \in {"wheel", "walk"})
        ~> (pc \in {"idle", "panic"})

\* the poses of a population, weights aside
Poses(list) == [j \in 1 .. Len(list) |->
                   <<list[j].X, list[j].Y, list[j].Heading>>]

\* C3: when the weighting pass of Update leaves sumWeight = 0 (here: after
\* an earlier pass had left it positive), the resample step fails with
\* DegenerateWeights, leaves the estimate as it was and does not replace
\* the population.
C3_DegenerateWeightsRaised ==
    [][(Update /\ ValidConfiguration /\ Len(listParticles) = numSamples
               /\ FGt(sumWeight, F(0)) /\ sumWeight' = F(0))
          => /\ raised' = "DegenerateWeights"
             /\ UNCHANGED est
             /\ Poses(listParticles') = Poses(listParticles)]_vars

HeadingInRange(q) == 0 <= q.Heading /\ q.Heading < TwoPi

\* C4: after the filter-level motion pass (a Particle.Move on every
\* particle) every particle's heading lies in [0, 2*pi).
C4_HeadingNormalised ==
    [][(Move /\ ValidConfiguration)
          => \A j \in 1 .. Len(listParticles') :
                HeadingInRange(listParticles'[j])]_vars

\* C5: CreatePF rejects an invalid configuration: a filter it hands back
\* has numSamples > 0, resampleFraction in (0,1] and positive sigmas, or
\* the call reported a ConfigurationError.
C5_InvalidConfigRejected ==
    pc # "start"
        => ((ValidSize /\ ValidSigmas) \/ raised = "ConfigurationError")

\* C6: a ResampleAndFuzz() whose resampleCount is 0 reports a configuration
\* error; it never completes silently.
C6_EmptyResampleReported ==
    [][((ResampleAndFuzz \/ Update) /\ ValidConfiguration
                                    /\ numIntResample = 0)
          => raised' \in {"ConfigurationError", "EmptyResampleTarget"}]_vars

RECURSIVE SumOver(_, _)
SumOver(list, field) ==
    IF list = <<>> THEN 0 ELSE Head(list)[field] + SumOver(Tail(list), field)

Mean(list, field) == FDiv(F(SumOver(list, field)), F(Len(list)))

\* C7: after the filter-level motion pass the estimate is the mean pose
\* over the whole population, for every resampleFraction in (0,1].
C7_MoveEstimateIsMean ==
    [][(Move /\ ValidConfiguration /\ pc' = "idle")
          => /\ EstimatedX' = Mean(listParticles', "X")
             /\ EstimatedY' = Mean(listParticles', "Y")
             /\ EstimatedHeading' = Mean(listParticles', "Heading")]_vars

\* numSamples * resampleFraction rounded to the nearest integer (halves
\* away from zero), for a fraction that is not negative
Rounded(a) == (2 * a.n + a.d) \div (2 * a.d)

\* C8: a completed ResampleAndFuzz() has executed the wheel
\* round(numSamples * resampleFraction) times and appended numSamples minus
\* that many fresh particles to the particles the wheel selected (here:
\* away from the ties x.5, where every rounding rule gives the same count).
C8_RoundedResampleCount ==
    (pc = "idle" /\ iteration > 0 /\ ValidConfiguration
                 /\ numResample.d # 2)
        => LET resampleCount == Rounded(numResample)
               refillCount == numSamples - resampleCount
           IN  /\ i = resampleCount
               /\ Len(listParticles) >= refillCount
               /\ Len(listParticles) <= refillCount + resampleCount

\* C9: CreatePF leaves numSamples particles of weight 0, heading in
\* [0, 2*pi), placed in the rectangle that was passed in.
C9_CreatedInDomain ==
    [][(CreatePF /\ ValidConfiguration')
          => /\ Len(listParticles') = numSamples'
             /\ \A j \in 1 .. Len(listParticles') :
                   LET q == listParticles'[j]
                   IN  /\ q.Weight = F(0)
                       /\ HeadingInRange(q)
                       /\ args'.xMin <= q.X /\ q.X <= args'.xMax
                       /\ args'.yMin <= q.Y /\ q.Y <= args'.yMax]_vars

\* C10, as claimed: Move(0, 0) leaves every particle a caller can hold
\* unchanged.
C10_MoveZeroIsIdentity == ParticleMove(p, 0, 0) = p

\* C10, amended: Move(0, 0) leaves x, y, heading and weight unchanged for
\* every particle whose heading lies in [0, 2*pi].
C10_MoveZeroFixesNormalised ==
    (0 <= p.Heading /\ p.Heading <= TwoPi) => ParticleMove(p, 0, 0) = p

\* a caller's particle that a Move has taken off the origin, heading 2*pi
C10_Witness == p.Heading = TwoPi /\ p.X # 0

\* the largest and the sum of the weights a population carries (0 for none)
RECURSIVE LargestWeight(_, _)
LargestWeight(list, k) ==
    IF k = 0 THEN F(0)
    ELSE LET rest == LargestWeight(list, k - 1)
         IN  IF FGt(list[k].Weight, rest) THEN list[k].Weight ELSE rest

RECURSIVE TotalWeight(_, _)
TotalWeight(list, k) ==
    IF k = 0 THEN F(0) ELSE FAdd(TotalWeight(list, k - 1), list[k].Weight)

\* C11: after a CalculateWeights pass with non-negative likelihoods,
\* maxWeight is the largest and sumWeight the sum of the weights the pass
\* assigned, whatever the two held before; the pass leaves every
\* particle's x, y and heading, the population length, the estimate and
\* the iteration count as they were.
C11_AggregatesRecomputed ==
    [][CalculateWeights =>
          LET n == Len(listParticles')
          IN  /\ maxWeight' = LargestWeight(listParticles', n)
              /\ sumWeight' = TotalWeight(listParticles', n)
              /\ Poses(listParticles') = Poses(listParticles)
              /\ UNCHANGED <<est, iteration>>]_vars

\* a weighted population after an earlier resample cycle: the weights
\* differ, and maxWeight and sumWeight are those of this pass
C11_Witness ==
    /\ pc = "idle" /\ iteration > 0 /\ Len(listParticles) = 2
    /\ listParticles[1].Weight # listParticles[2].Weight
    /\ maxWeight = F(1) /\ sumWeight = F(1)

\* C12: on a validly configured filter, in any sequence of Update calls
\* with likelihoods that are not all zero and of Move calls, no operation
\* reads the population at an index it does not have.
C12_IndexInRange == pc # "panic" /\ raised # "index out of range"

====
